---------------------------- MODULE Spec2Model ----------------------------
(***************************************************************************)
(* Token-based authentication of Practical 6 (Hono + Prisma + Bun):        *)
(* POST /register, POST /login and the JWT-protected route                 *)
(* GET /protected/account/balance.                                         *)
(*                                                                         *)
(* The handlers are translated from the TypeScript listed in               *)
(* Practical6-Token_Based_Authentication/README.md.  Library calls are     *)
(* modelled by what the library does at the call site:                     *)
(*   Bun.password.hash / verify  - salted bcrypt; hash throws on an empty  *)
(*                                 or missing password, verify on a        *)
(*                                 missing one;                            *)
(*   prisma.user.create          - one atomic insert of the user and its   *)
(*                                 account, P2002 on a duplicate email;    *)
(*   sign / jwt (hono/jwt)       - HS256 over header and claims; the       *)
(*                                 middleware splits the Authorization     *)
(*                                 header on whitespace, requires two      *)
(*                                 parts, verifies the second one and      *)
(*                                 otherwise answers 401 "Unauthorized"    *)
(*                                 with a WWW-Authenticate challenge.      *)
(***************************************************************************)
EXTENDS Integers, Sequences, FiniteSets, TLC

\* ------------------------------------------------------------------ bounds
MaxTicks  == 2      \* clock advances per behaviour
MaxTokens == 2      \* distinct tokens handed out by /login
MaxRows   == 2      \* rows a client adds to an array of the social media API

\* ------------------------------------------------------- program constants
TTL    == 60 * 60               \* exp: now + 60 * 60 seconds
secret == "mySecretKey"         \* signing secret of sign() and jwt()
cost   == 4                     \* bcrypt cost

\* ------------------------------------------------------------ input values
Absent    == "<undefined>"      \* a field missing from the JSON body
Emails    == {"a@b.com", "c@d.com", "", Absent}
Body(email, password) == [email |-> email, password |-> password]
\* JSON bodies sent to /register: two well-formed ones, and one for each way
\* a field can be empty or missing
RegisterBodies ==
    {Body("a@b.com", "pw123456"), Body("c@d.com", "pw2"),
     Body("", "pw123456"), Body(Absent, "pw2"),
     Body("a@b.com", ""), Body("c@d.com", Absent)}
\* JSON bodies sent to /login
LoginBodies ==
    {Body("a@b.com", "pw123456"), Body("c@d.com", "pw2"),
     Body("a@b.com", "pw2"), Body("c@d.com", "pw123456"),
     Body("x@y.com", "pw123456"), Body("", "pw2"),
     Body(Absent, "pw2"), Body("a@b.com", ""), Body("c@d.com", Absent)}
Salts     == {"s1", "s2"}
Callers   == {"c1", "c2"}       \* two clients, each sending one /register request
\* identifiers: emails are unique, so no table outgrows the number of emails
\* that can be stored
Ids       == 1 .. Cardinality(Emails \ {Absent})
\* @default(uuid()): any value not used in the table so far
uuid(used) == IF Ids \ used = {} THEN {0} ELSE Ids \ used
Deltas    == {1, TTL - 1}       \* seconds the clock may advance in one step

VARIABLES
    users,      \* table User:    records [id, email, hashedPassword]
    accounts,   \* table Account: records [id, userId, balance]
    clock,      \* Math.floor(Date.now() / 1000)
    ticks,      \* number of clock advances so far
    reg,        \* per caller: the /register request in progress or finished
    issued,     \* what clients hold: [email, at, token] for each token /login returned
    last,       \* the last /login or /protected request and its outcome
    hasher,     \* a caller of Bun.password alone: the password, its hashes, the last verify
    mockUsers,  \* utils/mockData users: records [id, username]
    posts,      \* utils/mockData posts: array of [id, caption, image, user_id, created_at]
    likes,      \* utils/mockData likes: array of [id, user_id, post_id, created_at]
    comments,   \* utils/mockData comments: array of [id, text, user_id, post_id, created_at]
    followers,  \* utils/mockData followers: array of [id, user_id, followed_user_id, created_at]
    api         \* the last request to the social media API and its response

\* the in-memory arrays of the social media API (Practical 1)
socialVars == <<mockUsers, posts, likes, comments, followers, api>>

vars == <<users, accounts, clock, ticks, reg, issued, last, hasher, socialVars>>

\* --------------------------------------------------------------- responses
NoHash  == [alg |-> "none", cost |-> 0, salt |-> "", digest |-> <<>>]
NoSig   == [hdr |-> "", sub |-> 0, exp |-> 0, key |-> "", cut |-> 0]
NoToken == [hdr |-> "", sub |-> 0, exp |-> 0, sig |-> NoSig, parts |-> 0, enc |-> FALSE]
NoData  == [found |-> FALSE, Account |-> {}]

\* the WWW-Authenticate header of a response, when it has one
NoChallenge == [error |-> "", description |-> ""]

Resp(status, message) ==
    [status |-> status, message |-> message, token |-> NoToken, data |-> NoData,
     wwwAuthenticate |-> NoChallenge]

NoResp == Resp(0, <<>>)

\* Hono's default error handler for an exception that is not an HTTPException
InternalServerError == Resp(500, <<"Internal Server Error">>)

\* new HTTPException(status, { message }).getResponse()
HTTPException(status, message) == Resp(status, <<message>>)

\* c.json(obj): status 200 unless one is given
cjson(message) == Resp(200, message)

\* ---------------------------------------------------------- PasswordHasher
\* Bun.password.hash(password, { algorithm: "bcrypt", cost: 4 }) with the
\* salt the call drew; the digest is a one-way function of password and salt.
HashThrows(password) == password \in {"", Absent}

\* variant: every call uses one fixed salt
passwordHash_fixedSalt(password, salt) ==
    [alg |-> "bcrypt", cost |-> cost, salt |-> "s0", digest |-> <<password, "s0">>]

passwordHash(password, salt) ==
    [alg |-> "bcrypt", cost |-> cost, salt |-> salt, digest |-> <<password, salt>>]

\* variant: the password is hashed again under a salt of the verifier's own
\* and the two encodings are compared
passwordVerify_ownSalt(password, hash) ==
    passwordHash(password, "s1") = hash

\* Bun.password.verify(password, hash, "bcrypt"): recompute with the embedded salt
passwordVerify(password, hash) ==
    passwordHash(password, hash.salt).digest = hash.digest

\* Bun.password.verify throws when the password argument is not a string;
\* for an empty string it resolves to false
VerifyThrows(password) == password = Absent

\* the outcome of `await Bun.password.verify(...)` as the caller sees it
BunPasswordVerify(password, hash) ==
    IF VerifyThrows(password) THEN "error"
    ELSE IF passwordVerify(password, hash) THEN "true"
    ELSE "false"

\* the salt of a call is 16 bytes of the system's random source: a value no
\* hash held anywhere in the system carries
FreshSalts ==
    Salts \ ( {u.hashedPassword.salt : u \in users}
              \cup {reg[c].hash.salt : c \in Callers}
              \cup {hasher.hashes[k].salt : k \in 1 .. Len(hasher.hashes)} )

\* ---- Bun.password called on its own: hash one password, verify candidates
Passwords == {"pw123456", "pw2", "pw12345", "PW123456"}
Probes    == Passwords \cup {"", Absent}

NoHasher ==
    [password |-> Absent, hashes |-> <<>>, probe |-> Absent, against |-> NoHash,
     result |-> ""]

\* await Bun.password.hash(password, { algorithm: "bcrypt", cost: 4 })
Hash ==
    /\ Len(hasher.hashes) < Cardinality(Salts)
    /\ \E salt \in FreshSalts :
          hasher' = [hasher EXCEPT
                        !.hashes = Append(@, passwordHash(hasher.password, salt))]
    /\ UNCHANGED <<users, accounts, clock, ticks, reg, issued, last, socialVars>>

\* await Bun.password.verify(probe, hash, "bcrypt") against a hash made before
Verify(probe, k) ==
    /\ k \in 1 .. Len(hasher.hashes)
    /\ hasher' = [hasher EXCEPT
                      !.probe = probe, !.against = hasher.hashes[k],
                      !.result = BunPasswordVerify(probe, hasher.hashes[k])]
    /\ UNCHANGED <<users, accounts, clock, ticks, reg, issued, last, socialVars>>

\* ------------------------------------------------------------- token format
\* HMAC over header and claims under a key
MAC(hdr, sub, exp, key) ==
    [hdr |-> hdr, sub |-> sub, exp |-> exp, key |-> key, cut |-> 0]

\* sign(payload, secret): header.claims.signature, HS256
sign(payload, key) ==
    [hdr |-> "HS256", sub |-> payload.sub, exp |-> payload.exp,
     sig |-> MAC("HS256", payload.sub, payload.exp, key),
     parts |-> 3, enc |-> TRUE]

\* ------------------------------------------------------------ TokenVerifier
AlgorithmTypes == {"HS256", "HS384", "HS512"}

\* variant: the claims are decoded and exp checked, the signature is not
verify_decodeOnly(token, key, now) ==
    IF token.parts # 3 THEN "Malformed"
    ELSE IF ~token.enc THEN "Malformed"
    ELSE IF token.hdr \notin AlgorithmTypes THEN "Malformed"
    ELSE IF token.exp # 0 /\ token.exp <= now THEN "Expired"
    ELSE "ok"

\* variant: a token is good for one request; the verifier remembers the token
\* it accepted last and refuses it when it comes again
verify_singleUse(token, key, now) ==
    IF token.parts # 3 THEN "Malformed"
    ELSE IF ~token.enc THEN "Malformed"
    ELSE IF token.hdr \notin AlgorithmTypes THEN "Malformed"
    ELSE IF token.exp # 0 /\ token.exp <= now THEN "Expired"
    ELSE IF token.sig # MAC(token.hdr, token.sub, token.exp, key) THEN "SignatureInvalid"
    ELSE IF last.op = "protected" /\ last.gate = "Authorized" /\ last.header.token = token
    THEN "SignatureInvalid"
    ELSE "ok"

\* Jwt.verify(token, secret, alg) of hono/jwt: three parts, decodable header
\* and claims, a known header algorithm, exp (when present) after now, then
\* the signature over header and claims.
verify(token, key, now) ==
    IF token.parts # 3 THEN "Malformed"
    ELSE IF ~token.enc THEN "Malformed"
    ELSE IF token.hdr \notin AlgorithmTypes THEN "Malformed"
    ELSE IF token.exp # 0 /\ token.exp <= now THEN "Expired"
    ELSE IF token.sig # MAC(token.hdr, token.sub, token.exp, key) THEN "SignatureInvalid"
    ELSE "ok"

\* -------------------------------------------------------- AuthorizationGate
NoHeader == [kind |-> "none", scheme |-> "", token |-> NoToken]

\* new HTTPException(401, { message: "Unauthorized" })
Unauthorized == HTTPException(401, "Unauthorized")

\* the response of a rejection by the middleware: 401, body "Unauthorized",
\* WWW-Authenticate: Bearer realm=...,error=...,error_description=...
unauthorizedResponse(error, description) ==
    [Unauthorized EXCEPT !.wwwAuthenticate =
        [error |-> error, description |-> description]]

\* variant: the rejection tells the caller which check the token failed
jwt_leaky(header, now) ==
    IF header.kind = "none"
    THEN [gate |-> "Rejected", cause |-> "NoAuthorization", payload |-> NoToken,
          resp |-> unauthorizedResponse("invalid_request",
                                        "no authorization included in request")]
    ELSE IF header.kind # "two"
    THEN [gate |-> "Rejected", cause |-> "InvalidStructure", payload |-> NoToken,
          resp |-> unauthorizedResponse("invalid_request",
                                        "invalid credentials structure")]
    ELSE LET v == verify(header.token, secret, now)
         IN  IF v = "ok"
             THEN [gate |-> "Authorized", cause |-> "ok", payload |-> header.token,
                   resp |-> NoResp]
             ELSE [gate |-> "Rejected", cause |-> v, payload |-> NoToken,
                   resp |-> unauthorizedResponse("invalid_token", v)]

\* jwt({ secret: 'mySecretKey' }) applied to one request: the Authorization
\* header is split on whitespace; with exactly two parts the second one is
\* the token, which is verified; the claims become c.get('jwtPayload').
jwt(header, now) ==
    IF header.kind = "none"
    THEN [gate |-> "Rejected", cause |-> "NoAuthorization", payload |-> NoToken,
          resp |-> unauthorizedResponse("invalid_request",
                                        "no authorization included in request")]
    ELSE IF header.kind # "two"
    THEN [gate |-> "Rejected", cause |-> "InvalidStructure", payload |-> NoToken,
          resp |-> unauthorizedResponse("invalid_request",
                                        "invalid credentials structure")]
    ELSE LET v == verify(header.token, secret, now)
         IN  IF v = "ok"
             THEN [gate |-> "Authorized", cause |-> "ok", payload |-> header.token,
                   resp |-> NoResp]
             ELSE [gate |-> "Rejected", cause |-> v, payload |-> NoToken,
                   resp |-> unauthorizedResponse("invalid_token",
                                                 "token verification failure")]

\* ------------------------------------------------------------ store lookups
\* variant: the where clause is missing, any user of the table is found
findByEmail_noWhere(email) == users

\* prisma.user.findUnique({ where: { email } })
findByEmail(email) == {u \in users : u.email = email}

\* variant: the select clause is missing, the whole user row is returned
findAccountsById_noSelect(id) ==
    IF \E u \in users : u.id = id
    THEN LET user == CHOOSE u \in users : u.id = id
         IN  [found |-> TRUE, id |-> user.id, email |-> user.email,
              hashedPassword |-> user.hashedPassword,
              Account |-> {a \in accounts : a.userId = id}]
    ELSE NoData

\* variant: the relation is not followed, the accounts of every user are returned
findAccountsById_allAccounts(id) ==
    IF \E u \in users : u.id = id
    THEN [found |-> TRUE,
          Account |-> {[id |-> a.id, balance |-> a.balance] : a \in accounts}]
    ELSE NoData

\* prisma.user.findUnique({ where: { id }, select: { Account: { balance, id } } })
findAccountsById(id) ==
    IF \E u \in users : u.id = id
    THEN [found |-> TRUE,
          Account |-> {[id |-> a.id, balance |-> a.balance] : a \in {b \in accounts : b.userId = id}}]
    ELSE NoData

\* variant: the lookup has no where clause and returns the first user
accountBalance_anyUser(payload) ==
    IF payload = NoToken
    THEN Unauthorized
    ELSE [cjson(<<"data">>) EXCEPT !.data =
            IF users = {} THEN NoData
            ELSE findAccountsById(CHOOSE i \in {u.id : u \in users} :
                                    \A j \in {u.id : u \in users} : i <= j)]

\* app.get("/protected/account/balance"): runs only when the middleware
\* called next(); payload is c.get('jwtPayload')
accountBalance(payload) ==
    IF payload = NoToken
    THEN Unauthorized
    ELSE [cjson(<<"data">>) EXCEPT !.data = findAccountsById(payload.sub)]

\* app.use("/protected/*", jwt(...)) followed by the handler: the handler is
\* reached only through next() of the middleware
protectedRoute(header, now) ==
    LET g == jwt(header, now)
    IN  IF g.gate = "Authorized"
        THEN [gate |-> g.gate, cause |-> g.cause, handlerRan |-> TRUE,
              subjectId |-> g.payload.sub, resp |-> accountBalance(g.payload)]
        ELSE [gate |-> g.gate, cause |-> g.cause, handlerRan |-> FALSE,
              subjectId |-> 0, resp |-> g.resp]

\* ------------------------------------------------------------- registration
IdleReg ==
    [pc |-> "idle", email |-> Absent, password |-> Absent, hash |-> NoHash,
     seen |-> FALSE, resp |-> NoResp]

\* variant: email is not declared @unique
prismaUserCreate_noUnique(email, hash, id, accountId) ==
    IF email = Absent
    THEN [error |-> "PrismaClientValidationError", users |-> users, accounts |-> accounts]
    ELSE [error |-> "none",
          users |-> users \cup {[id |-> id, email |-> email, hashedPassword |-> hash]},
          accounts |-> accounts \cup {[id |-> accountId, userId |-> id, balance |-> 0]}]

\* variant: the nested Account create is missing, only the user is inserted
prismaUserCreate_noAccount(email, hash, id, accountId) ==
    IF email = Absent
    THEN [error |-> "PrismaClientValidationError", users |-> users, accounts |-> accounts]
    ELSE IF \E u \in users : u.email = email
    THEN [error |-> "P2002", users |-> users, accounts |-> accounts]
    ELSE [error |-> "none",
          users |-> users \cup {[id |-> id, email |-> email, hashedPassword |-> hash]},
          accounts |-> accounts]

\* prisma.user.create({ data: { email, hashedPassword, Account: { create:
\* { balance: 0 } } } }): one statement of the database.  A missing email is
\* a validation error, an email already stored violates @unique (P2002),
\* otherwise the user and its account are inserted together.
prismaUserCreate(email, hash, id, accountId) ==
    IF email = Absent
    THEN [error |-> "PrismaClientValidationError", users |-> users, accounts |-> accounts]
    ELSE IF \E u \in users : u.email = email
    THEN [error |-> "P2002", users |-> users, accounts |-> accounts]
    ELSE [error |-> "none",
          users |-> users \cup {[id |-> id, email |-> email, hashedPassword |-> hash]},
          accounts |-> accounts \cup {[id |-> accountId, userId |-> id, balance |-> 0]}]

\* variant: the catch block does not recognise P2002 and rethrows
registerResponse_noCatch(email, error) ==
    IF error = "none" THEN cjson(<<email, " created successfully">>)
    ELSE InternalServerError

\* the response of /register for the outcome of prisma.user.create
registerResponse(email, error) ==
    IF error = "none" THEN cjson(<<email, " created successfully">>)
    ELSE IF error = "P2002" THEN cjson(<<"Email already exists">>)
    ELSE InternalServerError

\* /register up to the end of `await Bun.password.hash(...)`
RegisterHash(c, email, password) ==
    /\ reg[c].pc = "idle"
    /\ IF HashThrows(password)
       THEN reg' = [reg EXCEPT ![c] =
                [pc |-> "done", email |-> email, password |-> password,
                 hash |-> NoHash, seen |-> email \in {u.email : u \in users},
                 resp |-> InternalServerError]]
       ELSE \E salt \in FreshSalts :
            reg' = [reg EXCEPT ![c] =
                [pc |-> "create", email |-> email, password |-> password,
                 hash |-> passwordHash(password, salt),
                 seen |-> email \in {u.email : u \in users},
                 resp |-> NoResp]]
    /\ UNCHANGED <<users, accounts, clock, ticks, issued, last, hasher, socialVars>>

\* /register from `await prisma.user.create(...)` to the response
RegisterCreate(c) ==
    /\ reg[c].pc = "create"
    /\ \E id \in uuid({u.id : u \in users}), accountId \in uuid({a.id : a \in accounts}) :
           LET r == prismaUserCreate(reg[c].email, reg[c].hash, id, accountId)
           IN  /\ users' = r.users
               /\ accounts' = r.accounts
               /\ reg' = [reg EXCEPT ![c].pc = "done", ![c].hash = NoHash,
                                     ![c].resp = registerResponse(reg[c].email, r.error)]
    /\ UNCHANGED <<clock, ticks, issued, last, hasher, socialVars>>

\* -------------------------------------------------------------------- login
InvalidCredentials == HTTPException(401, "Invalid credentials")

\* variant: Date.now() is not divided by 1000, exp is counted from milliseconds
loginPayload_milliseconds(user, now) == [sub |-> user.id, exp |-> now * 1000 + TTL]

\* variant: exp is the time of the login, the lifetime is not added
loginPayload_noTtl(user, now) == [sub |-> user.id, exp |-> now]

\* const payload = { sub: user.id, exp: Math.floor(Date.now() / 1000) + 60 * 60 }
loginPayload(user, now) == [sub |-> user.id, exp |-> now + TTL]

\* app.post("/login")
login(email, password, now) ==
    IF email = Absent
    THEN InvalidCredentials                         \* findUnique throws, caught
    ELSE IF findByEmail(email) = {}
    THEN cjson(<<"User not found">>)
    ELSE LET user == CHOOSE u \in findByEmail(email) : TRUE
         IN  IF VerifyThrows(password)
             THEN InvalidCredentials                \* verify throws, caught
             ELSE IF passwordVerify(password, user.hashedPassword)
             THEN [cjson(<<"Login successful">>) EXCEPT
                      !.token = sign(loginPayload(user, now), secret)]
             ELSE InvalidCredentials

NoLast ==
    [op |-> "none", email |-> Absent, password |-> Absent, header |-> NoHeader,
     now |-> 0, gate |-> "Unauthenticated", cause |-> "", handlerRan |-> FALSE,
     subjectId |-> 0, resp |-> NoResp]

\* variant: a successful login stores the password again under a new salt
Login_rehash(email, password) ==
    LET r == login(email, password, clock)
        held == [email |-> email, at |-> clock, token |-> r.token]
    IN  /\ r.token # NoToken =>
              (held \in issued \/ Cardinality(issued) < MaxTokens)
        /\ issued' = IF r.token # NoToken THEN issued \cup {held} ELSE issued
        /\ last' = [NoLast EXCEPT !.op = "login", !.email = email,
                                  !.password = password, !.now = clock, !.resp = r]
        /\ users' = IF r.token = NoToken THEN users
                    ELSE {IF u.email = email
                          THEN [u EXCEPT !.hashedPassword = passwordHash(password, "s0")]
                          ELSE u : u \in users}
        /\ UNCHANGED <<accounts, clock, ticks, reg, hasher, socialVars>>

Login(email, password) ==
    LET r == login(email, password, clock)
        held == [email |-> email, at |-> clock, token |-> r.token]
    IN  /\ r.token # NoToken =>
              (held \in issued \/ Cardinality(issued) < MaxTokens)
        /\ issued' = IF r.token # NoToken THEN issued \cup {held} ELSE issued
        /\ last' = [NoLast EXCEPT !.op = "login", !.email = email,
                                  !.password = password, !.now = clock, !.resp = r]
        /\ UNCHANGED <<users, accounts, clock, ticks, reg, hasher, socialVars>>

\* ---------------------------------------------------------- protected route
\* what a client can put after the scheme word: a token it was given, that
\* token altered in one segment, or a token signed with a key of its own
Altered(t) ==
    {t}
    \cup {[t EXCEPT !.sub = s] : s \in Ids}
    \cup {[t EXCEPT !.exp = e] : e \in {t.exp + TTL, t.exp - 1}}
    \cup {[t EXCEPT !.hdr = h] : h \in {"HS512", "none"}}
    \cup {[t EXCEPT !.sig.cut = 1], [t EXCEPT !.parts = 2, !.sig = NoSig],
          [t EXCEPT !.enc = FALSE]}

Forged == {sign([sub |-> s, exp |-> clock + TTL], "attackerKey") : s \in Ids}

IssuedTokens == {i.token : i \in issued}

Presentable == UNION {Altered(t) : t \in IssuedTokens} \cup Forged

Bearer(t) == [kind |-> "two", scheme |-> "Bearer", token |-> t]

Headers ==
    {NoHeader}
    \cup {[kind |-> "one", scheme |-> s, token |-> NoToken] : s \in {"Bearer"}}
    \cup {Bearer(t) : t \in Presentable}
    \cup {[kind |-> "two", scheme |-> "Basic", token |-> t] : t \in IssuedTokens \cup Forged}

Protected(header) ==
    LET r == protectedRoute(header, clock)
    IN  /\ last' = [NoLast EXCEPT !.op = "protected", !.header = header,
                                  !.now = clock, !.gate = r.gate, !.cause = r.cause,
                                  !.handlerRan = r.handlerRan,
                                  !.subjectId = r.subjectId, !.resp = r.resp]
        /\ UNCHANGED <<users, accounts, clock, ticks, reg, issued, hasher, socialVars>>

\* -------------------------------------------------------------------- clock
Tick(d) ==
    /\ ticks < MaxTicks
    /\ clock' = clock + d
    /\ ticks' = ticks + 1
    /\ UNCHANGED <<users, accounts, reg, issued, last, hasher, socialVars>>

\* -------------------------------------------------------- social media API
\* Express controllers over the arrays of utils/mockData.  Ids are strings.
NoRow == [id |-> "", user_id |-> "", post_id |-> "", followed_user_id |-> "",
          text |-> "", caption |-> "", image |-> "", username |-> "",
          created_at |-> 0]

\* a row as the data of a response
asData(row) ==
    [f \in DOMAIN NoRow |-> IF f \in DOMAIN row THEN row[f] ELSE NoRow[f]]

NoApi ==
    [op |-> "none", xUserId |-> Absent, authorization |-> NoHeader, id |-> Absent,
     status |-> 0, success |-> FALSE, error |-> "", data |-> NoRow]

\* values a client sends in the X-User-Id header, and as ids in a JSON body
XUserIds == {Absent, "1", "2", "9"}
PostIds  == {"1", "9"}
FollowedUserIds == {"1", "2", "9"}

\* a token /login would return for the user with id 1, and no header at all
ApiAuthorizations ==
    {NoHeader, Bearer(sign([sub |-> 1, exp |-> TTL], secret))}

\* new Date().toISOString().slice(0, 10): the day of the clock
today == clock \div 86400

\* next(new ErrorResponse(message, statusCode)) through the error handler:
\* res.status(statusCode).json({ success: false, error: message })
ErrorResponse(r, message, statusCode) ==
    [r EXCEPT !.status = statusCode, !.success = FALSE, !.error = message]

\* res.status(201).json({ success: true, data })
created(r, data) ==
    [r EXCEPT !.status = 201, !.success = TRUE, !.data = data]

\* res.status(200).json({ success: true, data })
ok(r, data) ==
    [r EXCEPT !.status = 200, !.success = TRUE, !.data = data]

\* array.findIndex(row => row.id === id), counted from 1; 0 when there is none
findIndex(array, id) ==
    IF \E k \in 1 .. Len(array) : array[k].id = id
    THEN CHOOSE k \in 1 .. Len(array) :
            /\ array[k].id = id
            /\ \A j \in 1 .. k - 1 : array[j].id # id
    ELSE 0

\* array.splice(index, 1)
splice(array, index) ==
    [k \in 1 .. Len(array) - 1 |-> IF k < index THEN array[k] ELSE array[k + 1]]

\* a JSON body as the fields it may carry; Absent marks a field it lacks
\* { ...row, ...body }: the fields of the body replace those of the row
spread(row, body) ==
    [f \in DOMAIN row |->
        IF f \in DOMAIN body /\ body[f] # Absent THEN body[f] ELSE row[f]]

\* exports.createLike
createLike(xUserId, authorization, post_id) ==
    LET r == [NoApi EXCEPT !.op = "createLike", !.xUserId = xUserId,
                           !.authorization = authorization]
        userId == xUserId
        newLike == [id |-> ToString(Len(likes) + 1), user_id |-> userId,
                    post_id |-> post_id, created_at |-> today]
    IN  /\ Len(likes) < MaxRows
        /\ IF userId \in {Absent, ""}
           THEN /\ api' = ErrorResponse(r, "Not authorized to access this route", 401)
                /\ likes' = likes
           ELSE IF \A k \in 1 .. Len(mockUsers) : mockUsers[k].id # userId
           THEN /\ api' = ErrorResponse(r, "User not found", 404)
                /\ likes' = likes
           ELSE IF \A k \in 1 .. Len(posts) : posts[k].id # post_id
           THEN /\ api' = ErrorResponse(r, "Post not found", 404)
                /\ likes' = likes
           ELSE /\ likes' = Append(likes, newLike)
                /\ api' = created(r, [NoRow EXCEPT !.id = newLike.id,
                                          !.user_id = newLike.user_id,
                                          !.post_id = newLike.post_id,
                                          !.created_at = newLike.created_at])
        /\ UNCHANGED <<users, accounts, clock, ticks, reg, issued, last, hasher,
                       mockUsers, posts, comments, followers>>

\* exports.createFollower
createFollower(xUserId, authorization, followed_user_id) ==
    LET r == [NoApi EXCEPT !.op = "createFollower", !.xUserId = xUserId,
                           !.authorization = authorization]
        userId == xUserId
        newFollower == [id |-> ToString(Len(followers) + 1), user_id |-> userId,
                        followed_user_id |-> followed_user_id, created_at |-> today]
    IN  /\ Len(followers) < MaxRows
        /\ IF userId \in {Absent, ""}
           THEN /\ api' = ErrorResponse(r, "Not authorized to access this route", 401)
                /\ followers' = followers
           ELSE IF \A k \in 1 .. Len(mockUsers) : mockUsers[k].id # userId
           THEN /\ api' = ErrorResponse(r, "User not found", 404)
                /\ followers' = followers
           ELSE IF \A k \in 1 .. Len(mockUsers) : mockUsers[k].id # followed_user_id
           THEN /\ api' = ErrorResponse(r, "Followed user not found", 404)
                /\ followers' = followers
           ELSE /\ followers' = Append(followers, newFollower)
                /\ api' = created(r, [NoRow EXCEPT !.id = newFollower.id,
                                          !.user_id = newFollower.user_id,
                                          !.followed_user_id = newFollower.followed_user_id,
                                          !.created_at = newFollower.created_at])
        /\ UNCHANGED <<users, accounts, clock, ticks, reg, issued, last, hasher,
                       mockUsers, posts, likes, comments>>

\* ---- update and delete of a row its owner asks for.  updateLike,
\* updateComment, updateFollower and updatePost are the same statements over
\* their own array and messages, and so are the four delete handlers.
RowIds == {"1", "2", "9"}           \* values of :id in a request path
OwnerIds == {Absent, "1", "2"}      \* X-User-Id of update and delete requests

Outcome(status, error, array, data) ==
    [status |-> status, error |-> error, array |-> array, data |-> data]

respond(r, o) ==
    [r EXCEPT !.status = o.status, !.success = (o.status < 400),
              !.error = o.error, !.data = o.data]

\* variant: the row is looked up and replaced without the ownership check
updateOwned_noOwnerCheck(array, userId, id, body, notFound, notAuthorized) ==
    LET index == findIndex(array, id)
    IN  IF userId \in {Absent, ""}
        THEN Outcome(401, "Not authorized to access this route", array, NoRow)
        ELSE IF index = 0
        THEN Outcome(404, notFound, array, NoRow)
        ELSE LET row == [spread(array[index], body) EXCEPT
                            !.id = array[index].id,
                            !.user_id = array[index].user_id]
             IN  Outcome(200, "", [array EXCEPT ![index] = row], asData(row))

\* variant: the body is spread over the row and nothing is restored
updateOwned_noRestore(array, userId, id, body, notFound, notAuthorized) ==
    LET index == findIndex(array, id)
    IN  IF userId \in {Absent, ""}
        THEN Outcome(401, "Not authorized to access this route", array, NoRow)
        ELSE IF index = 0
        THEN Outcome(404, notFound, array, NoRow)
        ELSE IF array[index].user_id # userId
        THEN Outcome(401, notAuthorized, array, NoRow)
        ELSE LET row == spread(array[index], body)
             IN  Outcome(200, "", [array EXCEPT ![index] = row], asData(row))

\* the body of exports.updateLike / updateComment / updateFollower / updatePost
updateOwned(array, userId, id, body, notFound, notAuthorized) ==
    LET index == findIndex(array, id)
    IN  IF userId \in {Absent, ""}
        THEN Outcome(401, "Not authorized to access this route", array, NoRow)
        ELSE IF index = 0
        THEN Outcome(404, notFound, array, NoRow)
        ELSE IF array[index].user_id # userId
        THEN Outcome(401, notAuthorized, array, NoRow)
        ELSE LET row == [spread(array[index], body) EXCEPT
                            !.id = array[index].id,          \* Ensure ID doesn't change
                            !.user_id = array[index].user_id]
             IN  Outcome(200, "", [array EXCEPT ![index] = row], asData(row))

\* the body of exports.deleteLike / deleteComment / deleteFollower / deletePost
deleteOwned(array, userId, id, notFound, notAuthorized) ==
    LET index == findIndex(array, id)
    IN  IF userId \in {Absent, ""}
        THEN Outcome(401, "Not authorized to access this route", array, NoRow)
        ELSE IF index = 0
        THEN Outcome(404, notFound, array, NoRow)
        ELSE IF array[index].user_id # userId
        THEN Outcome(401, notAuthorized, array, NoRow)
        ELSE Outcome(200, "", splice(array, index), NoRow)

Request(op, xUserId, id) ==
    [NoApi EXCEPT !.op = op, !.xUserId = xUserId, !.id = id]

\* bodies of PUT /api/likes/:id
LikeBodies ==
    {[id |-> Absent, user_id |-> Absent, post_id |-> "2"],
     [id |-> "9", user_id |-> "9", post_id |-> "9"]}

\* exports.updateLike
updateLike(xUserId, id, body) ==
    LET o == updateOwned(likes, xUserId, id, body, "Like not found with id of :id",
                         "Not authorized to update this like")
    IN  /\ likes' = o.array
        /\ api' = respond(Request("updateLike", xUserId, id), o)
        /\ UNCHANGED <<users, accounts, clock, ticks, reg, issued, last, hasher,
                       mockUsers, posts, comments, followers>>

\* exports.deleteLike
deleteLike(xUserId, id) ==
    LET o == deleteOwned(likes, xUserId, id, "Like not found with id of :id",
                         "Not authorized to delete this like")
    IN  /\ likes' = o.array
        /\ api' = respond(Request("deleteLike", xUserId, id), o)
        /\ UNCHANGED <<users, accounts, clock, ticks, reg, issued, last, hasher,
                       mockUsers, posts, comments, followers>>

\* variant: the comment is pushed before the post is looked up
createComment_pushFirst(xUserId, post_id, text) ==
    LET r == Request("createComment", xUserId, Absent)
        userId == xUserId
        newComment == [id |-> ToString(Len(comments) + 1), text |-> text,
                       user_id |-> userId, post_id |-> post_id, created_at |-> today]
    IN  /\ Len(comments) < MaxRows
        /\ IF userId \in {Absent, ""}
           THEN /\ api' = ErrorResponse(r, "Not authorized to access this route", 401)
                /\ comments' = comments
           ELSE IF \A k \in 1 .. Len(mockUsers) : mockUsers[k].id # userId
           THEN /\ api' = ErrorResponse(r, "User not found", 404)
                /\ comments' = comments
           ELSE IF \A k \in 1 .. Len(posts) : posts[k].id # post_id
           THEN /\ api' = ErrorResponse(r, "Post not found", 404)
                /\ comments' = Append(comments, newComment)
           ELSE /\ comments' = Append(comments, newComment)
                /\ api' = created(r, asData(newComment))
        /\ UNCHANGED <<users, accounts, clock, ticks, reg, issued, last, hasher,
                       mockUsers, posts, likes, followers>>

\* exports.createComment
createComment(xUserId, post_id, text) ==
    LET r == Request("createComment", xUserId, Absent)
        userId == xUserId
        newComment == [id |-> ToString(Len(comments) + 1), text |-> text,
                       user_id |-> userId, post_id |-> post_id, created_at |-> today]
    IN  /\ Len(comments) < MaxRows
        /\ IF userId \in {Absent, ""}
           THEN /\ api' = ErrorResponse(r, "Not authorized to access this route", 401)
                /\ comments' = comments
           ELSE IF \A k \in 1 .. Len(mockUsers) : mockUsers[k].id # userId
           THEN /\ api' = ErrorResponse(r, "User not found", 404)
                /\ comments' = comments
           ELSE IF \A k \in 1 .. Len(posts) : posts[k].id # post_id
           THEN /\ api' = ErrorResponse(r, "Post not found", 404)
                /\ comments' = comments
           ELSE /\ comments' = Append(comments, newComment)
                /\ api' = created(r, asData(newComment))
        /\ UNCHANGED <<users, accounts, clock, ticks, reg, issued, last, hasher,
                       mockUsers, posts, likes, followers>>

\* bodies of PUT /api/comments/:id
CommentBodies ==
    {[id |-> Absent, user_id |-> Absent, post_id |-> Absent, text |-> "edited"],
     [id |-> "9", user_id |-> "9", post_id |-> "9", text |-> Absent]}

\* exports.updateComment
updateComment(xUserId, id, body) ==
    LET o == updateOwned(comments, xUserId, id, body,
                         "Comment not found with id of :id",
                         "Not authorized to update this comment")
    IN  /\ comments' = o.array
        /\ api' = respond(Request("updateComment", xUserId, id), o)
        /\ UNCHANGED <<users, accounts, clock, ticks, reg, issued, last, hasher,
                       mockUsers, posts, likes, followers>>

\* exports.deleteComment
deleteComment(xUserId, id) ==
    LET o == deleteOwned(comments, xUserId, id,
                         "Comment not found with id of :id",
                         "Not authorized to delete this comment")
    IN  /\ comments' = o.array
        /\ api' = respond(Request("deleteComment", xUserId, id), o)
        /\ UNCHANGED <<users, accounts, clock, ticks, reg, issued, last, hasher,
                       mockUsers, posts, likes, followers>>

\* bodies of PUT /api/followers/:id
FollowerBodies ==
    {[id |-> Absent, user_id |-> Absent, followed_user_id |-> "2"],
     [id |-> "9", user_id |-> "9", followed_user_id |-> "9"]}

\* exports.updateFollower
updateFollower(xUserId, id, body) ==
    LET o == updateOwned(followers, xUserId, id, body,
                         "Follower not found with id of :id",
                         "Not authorized to update this follower")
    IN  /\ followers' = o.array
        /\ api' = respond(Request("updateFollower", xUserId, id), o)
        /\ UNCHANGED <<users, accounts, clock, ticks, reg, issued, last, hasher,
                       mockUsers, posts, likes, comments>>

\* exports.deleteFollower
deleteFollower(xUserId, id) ==
    LET o == deleteOwned(followers, xUserId, id,
                         "Follower not found with id of :id",
                         "Not authorized to delete this follower")
    IN  /\ followers' = o.array
        /\ api' = respond(Request("deleteFollower", xUserId, id), o)
        /\ UNCHANGED <<users, accounts, clock, ticks, reg, issued, last, hasher,
                       mockUsers, posts, likes, comments>>

\* exports.createPost
createPost(xUserId, caption, image) ==
    LET r == Request("createPost", xUserId, Absent)
        userId == xUserId
        newPost == [id |-> ToString(Len(posts) + 1), caption |-> caption,
                    image |-> image, user_id |-> userId, created_at |-> today]
    IN  /\ Len(posts) < MaxRows
        /\ IF userId \in {Absent, ""}
           THEN /\ api' = ErrorResponse(r, "Not authorized to access this route", 401)
                /\ posts' = posts
           ELSE IF \A k \in 1 .. Len(mockUsers) : mockUsers[k].id # userId
           THEN /\ api' = ErrorResponse(r, "User not found", 404)
                /\ posts' = posts
           ELSE /\ posts' = Append(posts, newPost)
                /\ api' = created(r, asData(newPost))
        /\ UNCHANGED <<users, accounts, clock, ticks, reg, issued, last, hasher,
                       mockUsers, likes, comments, followers>>

\* bodies of PUT /api/posts/:id
PostBodies ==
    {[id |-> Absent, user_id |-> Absent, caption |-> "edited"],
     [id |-> "9", user_id |-> "9", caption |-> Absent]}

\* exports.updatePost
updatePost(xUserId, id, body) ==
    LET o == updateOwned(posts, xUserId, id, body,
                         "Post not found with id of :id",
                         "Not authorized to update this post")
    IN  /\ posts' = o.array
        /\ api' = respond(Request("updatePost", xUserId, id), o)
        /\ UNCHANGED <<users, accounts, clock, ticks, reg, issued, last, hasher,
                       mockUsers, likes, comments, followers>>

\* exports.deletePost
deletePost(xUserId, id) ==
    LET o == deleteOwned(posts, xUserId, id,
                         "Post not found with id of :id",
                         "Not authorized to delete this post")
    IN  /\ posts' = o.array
        /\ api' = respond(Request("deletePost", xUserId, id), o)
        /\ UNCHANGED <<users, accounts, clock, ticks, reg, issued, last, hasher,
                       mockUsers, likes, comments, followers>>

\* ---- users controller.  A stored user is kept as its id and username.
Usernames == {"traveler", "hiker", Absent}      \* req.body.username

\* exports.createUser
createUser(username) ==
    LET r == Request("createUser", Absent, Absent)
        newUser == [id |-> ToString(Len(mockUsers) + 1), username |-> username]
    IN  /\ Len(mockUsers) < MaxRows
        /\ IF \E k \in 1 .. Len(mockUsers) : mockUsers[k].username = newUser.username
           THEN /\ api' = ErrorResponse(r, "Username already exists", 400)
                /\ mockUsers' = mockUsers
           ELSE /\ mockUsers' = Append(mockUsers, newUser)
                /\ api' = created(r, asData(newUser))
        /\ UNCHANGED <<users, accounts, clock, ticks, reg, issued, last, hasher,
                       posts, likes, comments, followers>>

\* bodies of PUT /api/users/:id
UserBodies ==
    {[id |-> Absent, username |-> "traveler"],
     [id |-> "9", username |-> "hiker"],
     [id |-> "9", username |-> Absent]}

\* exports.updateUser
updateUser(id, body) ==
    LET r == Request("updateUser", Absent, id)
        index == findIndex(mockUsers, id)
    IN  /\ IF index = 0
           THEN /\ api' = ErrorResponse(r, "User not found with id of :id", 404)
                /\ mockUsers' = mockUsers
           ELSE LET row == [spread(mockUsers[index], body) EXCEPT
                                !.id = mockUsers[index].id]   \* Ensure ID doesn't change
                IN  /\ mockUsers' = [mockUsers EXCEPT ![index] = row]
                    /\ api' = ok(r, asData(row))
        /\ UNCHANGED <<users, accounts, clock, ticks, reg, issued, last, hasher,
                       posts, likes, comments, followers>>

\* exports.deleteUser
deleteUser(id) ==
    LET r == Request("deleteUser", Absent, id)
        index == findIndex(mockUsers, id)
    IN  /\ IF index = 0
           THEN /\ api' = ErrorResponse(r, "User not found with id of :id", 404)
                /\ mockUsers' = mockUsers
           ELSE /\ mockUsers' = splice(mockUsers, index)
                /\ api' = ok(r, NoRow)
        /\ UNCHANGED <<users, accounts, clock, ticks, reg, issued, last, hasher,
                       posts, likes, comments, followers>>

\* ---- list handlers: pagination over req.query.page and req.query.limit.
\* A query value is the sequence of its characters; the empty sequence is a
\* parameter that was not sent.
NoQuery == <<>>
QueryValues ==
    {NoQuery, <<"a">>, <<"0">>, <<"1">>, <<"2">>, <<"3">>, <<"1", "0">>,
     <<"2", "a">>, <<"-", "1">>}

Digits == {"0", "1", "2", "3", "4", "5", "6", "7", "8", "9"}

DigitOf(c) ==
    CASE c = "0" -> 0 [] c = "1" -> 1 [] c = "2" -> 2 [] c = "3" -> 3
      [] c = "4" -> 4 [] c = "5" -> 5 [] c = "6" -> 6 [] c = "7" -> 7
      [] c = "8" -> 8 [] c = "9" -> 9

NaN == [nan |-> TRUE, value |-> 0]
Number(n) == [nan |-> FALSE, value |-> n]

RECURSIVE toNumber(_, _)
toNumber(string, n) ==
    IF n = 0 THEN 0 ELSE toNumber(string, n - 1) * 10 + DigitOf(string[n])

\* parseInt(string, 10): an optional sign and the digits the string starts
\* with; NaN when it starts with none
parseInt(string) ==
    LET negative == Len(string) > 0 /\ string[1] = "-"
        rest == IF negative THEN Tail(string) ELSE string
        n == CHOOSE m \in 0 .. Len(rest) :
                /\ \A k \in 1 .. m : rest[k] \in Digits
                /\ m < Len(rest) => rest[m + 1] \notin Digits
    IN  IF n = 0 THEN NaN
        ELSE IF negative THEN Number(0 - toNumber(rest, n))
        ELSE Number(toNumber(rest, n))

\* x || d on a number: NaN and 0 are falsy
orDefault(x, d) == IF x.nan \/ x.value = 0 THEN d ELSE x.value

\* array.slice(start, end), indices counted from 0 as the code counts them
slice(array, start, end) ==
    LET len == Len(array)
        clamp(i) == IF i < 0 THEN (IF len + i < 0 THEN 0 ELSE len + i)
                    ELSE IF i > len THEN len ELSE i
        from == clamp(start)
        to == clamp(end)
    IN  IF to <= from THEN <<>>
        ELSE [k \in 1 .. to - from |-> array[from + k]]

\* Math.ceil(total / limit), limit not 0
ceil(total, limit) ==
    IF limit > 0 THEN (total + limit - 1) \div limit
    ELSE 0 - (total \div (0 - limit))

\* the list response { success, count, page, total_pages, pagination, data }
\* next to the request it answers
Listing(op, query, page, limit, startIndex, endIndex, total, data) ==
    [Request(op, Absent, Absent) EXCEPT !.status = 200, !.success = TRUE]
        @@ [query |-> query,
            count |-> Len(data),
            page |-> page,
            total_pages |-> ceil(total, limit),
            pagination |->
                [next |-> IF endIndex < total
                          THEN <<[page |-> page + 1, limit |-> limit]>> ELSE <<>>,
                 prev |-> IF startIndex > 0
                          THEN <<[page |-> page - 1, limit |-> limit]>> ELSE <<>>],
            rows |-> data]

\* an error answered to a list request
ListingError(op, query, message, statusCode) ==
    ErrorResponse(Request(op, Absent, Absent), message, statusCode)
        @@ [query |-> query, count |-> 0, page |-> 0, total_pages |-> 0,
            pagination |-> [next |-> <<>>, prev |-> <<>>], rows |-> <<>>]

\* users.find(user => user.id === id): the rows found, none or the first
find(array, id) ==
    IF findIndex(array, id) = 0 THEN <<>> ELSE <<array[findIndex(array, id)]>>

\* exports.getLikes
getLikes(query) ==
    LET page == orDefault(parseInt(query.page), 1)
        limit == orDefault(parseInt(query.limit), 10)
        startIndex == (page - 1) * limit
        endIndex == page * limit
        total == Len(likes)
        results == slice(likes, startIndex, endIndex)
        \* user.id and post.id of a row that find did not return throw
        throws == \E k \in 1 .. Len(results) :
                        \/ find(mockUsers, results[k].user_id) = <<>>
                        \/ find(posts, results[k].post_id) = <<>>
        enhancedResults ==
            [k \in 1 .. Len(results) |->
                LET user == find(mockUsers, results[k].user_id)[1]
                    post == find(posts, results[k].post_id)[1]
                IN  results[k] @@
                    [user |-> [id |-> user.id, username |-> user.username],
                     post |-> [id |-> post.id, caption |-> post.caption,
                               image |-> post.image]]]
    IN  /\ api' = IF throws
                  THEN ListingError("getLikes", query,
                            "Cannot read properties of undefined (reading 'id')", 500)
                  ELSE Listing("getLikes", query, page, limit, startIndex,
                               endIndex, total, enhancedResults)
        /\ UNCHANGED <<users, accounts, clock, ticks, reg, issued, last, hasher,
                       mockUsers, posts, likes, comments, followers>>

\* exports.getUsers
getUsers(query) ==
    LET page == orDefault(parseInt(query.page), 1)
        limit == orDefault(parseInt(query.limit), 10)
        startIndex == (page - 1) * limit
        endIndex == page * limit
        total == Len(mockUsers)
        results == slice(mockUsers, startIndex, endIndex)
    IN  /\ api' = Listing("getUsers", query, page, limit, startIndex, endIndex,
                          total, results)
        /\ UNCHANGED <<users, accounts, clock, ticks, reg, issued, last, hasher,
                       mockUsers, posts, likes, comments, followers>>

\* the posts of utils/mockData
InitPosts ==
    <<[id |-> "1", caption |-> "first", image |-> "1.jpg",
       user_id |-> "1", created_at |-> 0],
      [id |-> "2", caption |-> "second", image |-> "2.jpg",
       user_id |-> "2", created_at |-> 0]>>

\* the arrays as the server starts with them
InitSocial ==
    /\ mockUsers = <<[id |-> "1", username |-> "traveler"],
                     [id |-> "2", username |-> "new_traveler"]>>
    /\ posts = InitPosts
    /\ likes = <<>>
    /\ comments = <<>>
    /\ followers = <<>>
    /\ api = NoApi

\* ------------------------------------------------------------ specification
\* The whole service: both clients register while logins and protected
\* requests arrive at any point in between.
Init ==
    /\ users = {}
    /\ accounts = {}
    /\ clock = 0
    /\ ticks = 0
    /\ reg = [c \in Callers |-> IdleReg]
    /\ issued = {}
    /\ last = NoLast
    /\ hasher = NoHasher
    /\ InitSocial

\* requests sent while registrations are in progress
CoreLoginBodies ==
    {Body("a@b.com", "pw123456"), Body("c@d.com", "pw2"), Body("a@b.com", "pw2")}

CoreHeaders ==
    {NoHeader}
    \cup {Bearer(t) : t \in IssuedTokens}
    \cup {Bearer([t EXCEPT !.sig.cut = 1]) : t \in IssuedTokens}

Next ==
    \/ \E c \in Callers, body \in RegisterBodies :
            RegisterHash(c, body.email, body.password)
    \/ \E c \in Callers : RegisterCreate(c)
    \/ \E body \in CoreLoginBodies : Login(body.email, body.password)
    \/ \E header \in CoreHeaders : Protected(header)

Spec == Init /\ [][Next]_vars

\* The token life cycle on a store that two registrations have filled:
\* logins, protected requests with every header a client can build, and
\* the clock.
InitAuth ==
    /\ users = {[id |-> 1, email |-> "a@b.com",
                 hashedPassword |-> passwordHash("pw123456", "s1")],
                [id |-> 2, email |-> "c@d.com",
                 hashedPassword |-> passwordHash("pw2", "s2")]}
    /\ accounts = {[id |-> 2, userId |-> 1, balance |-> 0],
                    [id |-> 3, userId |-> 2, balance |-> 0]}
    /\ clock = 0
    /\ ticks = 0
    /\ reg = [c \in Callers |->
                [IdleReg EXCEPT !.pc = "done",
                                !.email = IF c = "c1" THEN "a@b.com" ELSE "c@d.com",
                                !.password = IF c = "c1" THEN "pw123456" ELSE "pw2",
                                !.resp = registerResponse(
                                    IF c = "c1" THEN "a@b.com" ELSE "c@d.com", "none")]]
    /\ issued = {}
    /\ last = NoLast
    /\ hasher = NoHasher
    /\ InitSocial

NextAuth ==
    \/ \E body \in LoginBodies : Login(body.email, body.password)
    \/ \E header \in Headers : Protected(header)
    \/ \E d \in Deltas : Tick(d)

SpecAuth == InitAuth /\ [][NextAuth]_vars

\* The password hasher by itself: one password is hashed as often as salts
\* can be told apart, and candidates are verified against the hashes.
InitHasher ==
    /\ users = {}
    /\ accounts = {}
    /\ clock = 0
    /\ ticks = 0
    /\ reg = [c \in Callers |-> IdleReg]
    /\ issued = {}
    /\ last = NoLast
    /\ hasher \in {[NoHasher EXCEPT !.password = p] : p \in Passwords}
    /\ InitSocial

NextHasher ==
    \/ Hash
    \/ \E probe \in Probes, k \in 1 .. Cardinality(Salts) : Verify(probe, k)

SpecHasher == InitHasher /\ [][NextHasher]_vars

\* The social media API: clients create likes and followers.
InitApi ==
    /\ users = {}
    /\ accounts = {}
    /\ clock = 0
    /\ ticks = 0
    /\ reg = [c \in Callers |-> IdleReg]
    /\ issued = {}
    /\ last = NoLast
    /\ hasher = NoHasher
    /\ InitSocial

NextApi ==
    \/ \E xUserId \in XUserIds, authorization \in ApiAuthorizations, post_id \in PostIds :
            createLike(xUserId, authorization, post_id)
    \/ \E xUserId \in XUserIds, authorization \in ApiAuthorizations,
          followed_user_id \in FollowedUserIds :
            createFollower(xUserId, authorization, followed_user_id)

SpecApi == InitApi /\ [][NextApi]_vars

\* Create, update and delete on likes, comments, followers and posts.  The
\* handlers of one array read and write no other array that changes here, so
\* the arrays are exercised one at a time: requests go to an array while the
\* other three are as the server started with them.
LikesOnly     == comments = <<>> /\ followers = <<>> /\ posts = InitPosts
CommentsOnly  == likes = <<>> /\ followers = <<>> /\ posts = InitPosts
FollowersOnly == likes = <<>> /\ comments = <<>> /\ posts = InitPosts
PostsOnly     == likes = <<>> /\ comments = <<>> /\ followers = <<>>

NextRecords ==
    \/ LikesOnly /\ \E xUserId \in XUserIds, post_id \in PostIds :
            createLike(xUserId, NoHeader, post_id)
    \/ LikesOnly /\ \E xUserId \in OwnerIds, id \in RowIds, body \in LikeBodies :
            updateLike(xUserId, id, body)
    \/ LikesOnly /\ \E xUserId \in OwnerIds, id \in RowIds : deleteLike(xUserId, id)
    \/ CommentsOnly /\ \E xUserId \in XUserIds, post_id \in PostIds :
            createComment(xUserId, post_id, "nice")
    \/ CommentsOnly /\ \E xUserId \in OwnerIds, id \in RowIds, body \in CommentBodies :
            updateComment(xUserId, id, body)
    \/ CommentsOnly /\ \E xUserId \in OwnerIds, id \in RowIds :
            deleteComment(xUserId, id)
    \/ FollowersOnly /\ \E xUserId \in XUserIds, followed_user_id \in FollowedUserIds :
            createFollower(xUserId, NoHeader, followed_user_id)
    \/ FollowersOnly /\ \E xUserId \in OwnerIds, id \in RowIds, body \in FollowerBodies :
            updateFollower(xUserId, id, body)
    \/ FollowersOnly /\ \E xUserId \in OwnerIds, id \in RowIds :
            deleteFollower(xUserId, id)
    \/ PostsOnly /\ \E xUserId \in XUserIds : createPost(xUserId, "third", "3.jpg")
    \/ PostsOnly /\ \E xUserId \in OwnerIds, id \in RowIds, body \in PostBodies :
            updatePost(xUserId, id, body)
    \/ PostsOnly /\ \E xUserId \in OwnerIds, id \in RowIds : deletePost(xUserId, id)

SpecRecords == InitApi /\ [][NextRecords]_vars

\* Create, update and delete on the users array.
NextUsers ==
    \/ \E username \in Usernames : createUser(username)
    \/ \E id \in RowIds, body \in UserBodies : updateUser(id, body)
    \/ \E id \in RowIds : deleteUser(id)

SpecUsers == InitApi /\ [][NextUsers]_vars

\* Lists of likes and of users, read page by page while likes are created
\* and updated.
Queries ==
    {[page |-> p, limit |-> l] :
        p \in QueryValues \ {<<"1", "0">>},
        l \in {NoQuery, <<"a">>, <<"1">>, <<"2">>, <<"1", "0">>}}

NextPages ==
    \/ \E xUserId \in {"1", "2"} : createLike(xUserId, NoHeader, "1")
    \/ \E xUserId \in {"1", "2"}, id \in RowIds, body \in LikeBodies :
            updateLike(xUserId, id, body)
    \/ \E query \in Queries : getLikes(query)
    \/ \E query \in Queries : getUsers(query)

SpecPages == InitApi /\ [][NextPages]_vars

\* ---------------------------------------------------------------- properties
\* vocabulary of the properties, stated without the operators of the handlers

\* the plaintext a stored hash was computed from
PlainOf(hash) == hash.digest[1]

\* a token that passes signature and expiry verification at time now
PassesVerification(t, now) ==
    /\ t.parts = 3 /\ t.enc /\ t.hdr = "HS256"
    /\ t.sig = MAC(t.hdr, t.sub, t.exp, secret)
    /\ now < t.exp

\* a body of /register or /login with both fields present and non-empty
WellFormed(email, password) ==
    email \notin {"", Absent} /\ password \notin {"", Absent}

Created(email) == cjson(<<email, " created successfully">>)
ConflictError  == cjson(<<"Email already exists">>)

\* C1: the resource handler of a protected route runs only for a request
\* whose Authorization header is 'Bearer <token>' with a token that passed
\* signature and expiry verification; a request with a missing header, a
\* wrong scheme, or a token that is malformed, wrongly signed or expired
\* ends in Rejected and never reaches the handler.
C1_HandlerOnlyForVerifiedBearer ==
    last.op = "protected" =>
        /\ last.handlerRan =>
              /\ last.header.kind = "two"
              /\ last.header.scheme = "Bearer"
              /\ PassesVerification(last.header.token, last.now)
        /\ (\/ last.header.kind # "two"
            \/ last.header.scheme # "Bearer"
            \/ ~PassesVerification(last.header.token, last.now))
           => (last.gate = "Rejected" /\ ~last.handlerRan)

\* C2: a login that fails, because the email has no Credential or because
\* the password does not match the registered one, is answered with
\* 401 'Invalid credentials' in both cases.
C2_UniformLoginFailure ==
    [][ ( /\ last'.op = "login"
          /\ last' # last
          /\ \/ \A u \in users : u.email # last'.email
             \/ \E u \in users : /\ u.email = last'.email
                                 /\ PlainOf(u.hashedPassword) # last'.password )
        => last'.resp = InvalidCredentials ]_vars

TokenCauses == {"Malformed", "SignatureInvalid", "Expired"}

C4_SubjectIsTokenOwner ==
    (last.op = "protected" /\ last.gate = "Authorized") =>
        /\ last.subjectId = last.header.token.sub
        /\ \E i \in issued :
              /\ i.token = last.header.token
              /\ \E u \in users : u.email = i.email /\ u.id = last.subjectId
        /\ last.resp.status = 200
        /\ last.resp.data.found
        /\ last.resp.data.Account =
              {[id |-> a.id, balance |-> a.balance] :
                  a \in {b \in accounts : b.userId = last.subjectId}}

C4_Witness ==
    /\ last.op = "protected"
    /\ last.gate = "Authorized"
    /\ last.subjectId = 2
    /\ \E i \in issued : i.token.sub = 1

\* C5: two register requests for the same email that are in progress at the
\* same time (neither found the email stored when it started) end with one
\* success and one ConflictError, and with one Credential for that email.
C5_ConcurrentRegisterOneWins ==
    \A c1, c2 \in Callers :
        ( /\ c1 # c2
          /\ reg[c1].pc = "done" /\ reg[c2].pc = "done"
          /\ reg[c1].email = reg[c2].email
          /\ WellFormed(reg[c1].email, reg[c1].password)
          /\ WellFormed(reg[c2].email, reg[c2].password)
          /\ ~reg[c1].seen /\ ~reg[c2].seen )
        => /\ {reg[c1].resp, reg[c2].resp} =
                  {Created(reg[c1].email), ConflictError}
           /\ Cardinality({u \in users : u.email = reg[c1].email}) = 1

C5_Witness ==
    /\ reg["c1"].pc = "done" /\ reg["c2"].pc = "done"
    /\ reg["c1"].email = "a@b.com" /\ reg["c2"].email = "a@b.com"
    /\ ~reg["c1"].seen /\ ~reg["c2"].seen
    /\ reg["c1"].resp = ConflictError
    /\ reg["c2"].resp = Created("a@b.com")

\* C6: no two Credentials in the store have the same email.
C6_EmailUnique ==
    \A u1, u2 \in users : u1.email = u2.email => u1 = u2

C6_Witness ==
    /\ \E c \in Callers :
          /\ reg[c].resp = ConflictError
          /\ Cardinality({u \in users : u.email = reg[c].email}) = 1
    /\ last.op = "protected"
    /\ last.gate = "Authorized"

\* C7: a token returned by login is accepted at every clock value before its
\* exp and rejected as Expired at every clock value from exp on; it is
\* accepted at the time it was issued and rejected from issue time + TTL on.
C7_ValidUntilExp ==
    /\ \A i \in issued :
          LET r == protectedRoute(Bearer(i.token), clock)
          IN  /\ clock < i.token.exp => r.gate = "Authorized"
              /\ clock >= i.token.exp => (r.gate = "Rejected" /\ r.cause = "Expired")
              /\ clock = i.at => r.gate = "Authorized"
              /\ clock >= i.at + TTL => (r.gate = "Rejected" /\ r.cause = "Expired")
    /\ (last.op = "protected" /\ last.header.kind = "two"
            /\ last.header.token \in IssuedTokens) =>
          IF last.now < last.header.token.exp
          THEN last.gate = "Authorized"
          ELSE last.gate = "Rejected" /\ last.cause = "Expired"

C7_Witness ==
    /\ last.op = "protected"
    /\ last.header = Bearer(last.header.token)
    /\ last.header.token \in IssuedTokens
    /\ last.now = last.header.token.exp
    /\ last.cause = "Expired"
    /\ \E i \in issued : clock = i.token.exp - 1

C10_MalformedRegisterRejected ==
    [][ \A c \in Callers :
          ( /\ reg[c].pc = "idle"
            /\ reg'[c].pc # "idle"
            /\ ~WellFormed(reg'[c].email, reg'[c].password) )
          => /\ reg'[c].pc = "done"
             /\ reg'[c].hash = NoHash
             /\ reg'[c].resp.status = 400
             /\ users' = users ]_vars

\* C11: a register request with a non-empty password and an email not yet in
\* the store is answered with status 201 and a message, and adds exactly one
\* Credential with that email whose passwordHash is the hash of the given
\* password; all other Credentials are unchanged.
C11_RegisterAdds201 ==
    [][ \A c \in Callers :
          ( /\ reg[c].pc = "create"
            /\ reg'[c].pc = "done"
            /\ reg[c].email # Absent
            /\ \A u \in users : u.email # reg[c].email )
          => /\ reg'[c].resp.status = 201
             /\ reg'[c].resp.message # <<>>
             /\ \E u \in users' \ users :
                   /\ users' = users \cup {u}
                   /\ u.email = reg[c].email
                   /\ u.hashedPassword = reg[c].hash
                   /\ \E salt \in Salts :
                        u.hashedPassword = passwordHash(reg[c].password, salt) ]_vars

\* C12: a login with the email of a stored Credential and the password it was
\* registered with is answered with status 200, a message and a token, and
\* the token's sub is the id of that Credential and of no other.
C12_LoginReturnsOwnToken ==
    [][ ( /\ last'.op = "login"
          /\ last' # last
          /\ \E u \in users : /\ u.email = last'.email
                              /\ PlainOf(u.hashedPassword) = last'.password )
        => /\ last'.resp.status = 200
           /\ last'.resp.message # <<>>
           /\ last'.resp.token # NoToken
           /\ PassesVerification(last'.resp.token, clock)
           /\ \A u \in users :
                 (u.email = last'.email) <=> (last'.resp.token.sub = u.id) ]_vars

C12_Witness ==
    /\ last.op = "login"
    /\ last.email = "c@d.com"
    /\ last.resp.status = 200
    /\ Cardinality(users) >= 2
    /\ \E u \in users : u.email = "c@d.com" /\ u.id = last.resp.token.sub

\* every message a handler or the middleware puts into a response
Messages ==
    {<<>>, <<"Internal Server Error">>, <<"Email already exists">>,
     <<"User not found">>, <<"Login successful">>, <<"Invalid credentials">>,
     <<"Unauthorized">>, <<"data">>}
    \cup {<<e, " created successfully">> : e \in Emails}

\* a response that carries nothing but status, message, token, the accounts'
\* id and balance, and the challenge
CarriesNoHash(resp) ==
    /\ DOMAIN resp = {"status", "message", "token", "data", "wwwAuthenticate"}
    /\ resp.message \in Messages
    /\ DOMAIN resp.token = {"hdr", "sub", "exp", "sig", "parts", "enc"}
    /\ DOMAIN resp.data = {"found", "Account"}
    /\ \A a \in resp.data.Account : DOMAIN a = {"id", "balance"}

\* C13: in every reachable state the hash stored for a Credential is not the
\* plaintext password it was registered with, and no response of register,
\* login or a protected route contains a password hash.
C13_HashNeverPlainNorReturned ==
    /\ \A u \in users : u.hashedPassword.alg = "bcrypt"
    /\ \A c \in Callers :
          (reg[c].pc = "done" /\ reg[c].resp = Created(reg[c].email)) =>
              \A u \in users : u.email = reg[c].email =>
                  /\ u.hashedPassword.digest # <<reg[c].password>>
                  /\ passwordVerify(reg[c].password, u.hashedPassword)
    /\ \A c \in Callers : CarriesNoHash(reg[c].resp)
    /\ CarriesNoHash(last.resp)

C13_Witness ==
    /\ \E c \in Callers : reg[c].resp = Created(reg[c].email)
    /\ \E i \in issued : i.token.sub \in {u.id : u \in users}
    /\ last.op = "protected"
    /\ last.resp.data.found
    /\ last.resp.data.Account # {}

C16_ExpIsIssueTimePlusTtl ==
    [][ /\ \A i \in issued' :
              /\ i.token.exp = i.at + 3600
              /\ i.token.exp > i.at
        /\ issued \subseteq issued'
        /\ \A i \in issued' \ issued :
              /\ last'.op = "login"
              /\ i.at = clock
              /\ i.token = last'.resp.token
        /\ last'.op = "protected" => last'.resp.token = NoToken ]_vars

C16_Witness ==
    /\ \E i \in issued :
          /\ i.at > 0
          /\ clock > i.at
          /\ last.header = Bearer(i.token)
    /\ last.op = "protected"
    /\ last.gate = "Authorized"

\* the register request of the end-to-end run has been answered, and nobody
\* else asked for its email
RegisteredAB(c) ==
    /\ reg[c].pc = "done"
    /\ reg[c].email = "a@b.com"
    /\ reg[c].password = "pw123456"
    /\ \A d \in Callers \ {c} : reg[d].email # "a@b.com"

\* C17: register(a@b.com, pw123456), then login with the same credentials,
\* then a protected request with the returned token, one with no
\* Authorization header and one with the token truncated by one character
\* are answered with 201, 200 (with a token), 200, 401, 401 in that order.
\* Each request is a step taken after the register request was answered; the
\* three protected requests are also read from the route in the state the
\* login leaves, which they do not change.
C17_EndToEndStatuses ==
    [][ \A c \in Callers :
          RegisteredAB(c) =>
            /\ reg[c].resp.status = 201
            /\ (last'.op = "login" /\ last' # last /\ last'.email = "a@b.com"
                    /\ last'.password = "pw123456") =>
                  /\ last'.resp.status = 200
                  /\ last'.resp.token # NoToken
                  /\ protectedRoute(Bearer(last'.resp.token), clock).resp.status = 200
                  /\ protectedRoute(NoHeader, clock).resp.status = 401
                  /\ protectedRoute(Bearer([last'.resp.token EXCEPT !.sig.cut = 1]),
                                    clock).resp.status = 401
            /\ (last'.op = "protected" /\ last' # last) =>
                  \A i \in issued : i.email = "a@b.com" =>
                      /\ last'.header = Bearer(i.token) => last'.resp.status = 200
                      /\ last'.header = NoHeader => last'.resp.status = 401
                      /\ last'.header = Bearer([i.token EXCEPT !.sig.cut = 1])
                            => last'.resp.status = 401 ]_vars

\* C18: login and protected requests, successful or not, leave the
\* credential store unchanged and store nothing on the server about the
\* tokens issued; a Credential once created has the same id, email and
\* passwordHash in every later state.
C18_LoginAndProtectedChangeNoStore ==
    [][ /\ last' # last => (users' = users /\ accounts' = accounts /\ reg' = reg)
        /\ \A u \in users :
              /\ u \in users'
              /\ \A v \in users' : (v.id = u.id \/ v.email = u.email) => v = u ]_vars

C18_Witness ==
    /\ Cardinality(users) = 2
    /\ issued # {}
    /\ last.op = "protected"
    /\ last.gate = "Rejected"
    /\ last.header.kind = "two"

\* what the gate answers for a header at a time under the signing key,
\* written without reference to any state of the service
GateOutcome(header, now) ==
    IF header.kind = "two" /\ PassesVerification(header.token, now)
    THEN [gate |-> "Authorized", subjectId |-> header.token.sub]
    ELSE [gate |-> "Rejected", subjectId |-> 0]

VerifiedSubject(authorization, now) ==
    IF authorization.kind = "two" /\ PassesVerification(authorization.token, now)
    THEN ToString(authorization.token.sub)
    ELSE Absent

\* C20: all identity derives from a verified token subject claim: no
\* operation that acts on behalf of a user (creating a like or a follower,
\* reading an account) takes the acting user's identity from a header or
\* body value of the client that was not verified.  Every row a request
\* adds carries as user_id the verified subject of that request, and the
\* account handler reads the accounts of the verified subject.
C20_IdentityFromVerifiedSubject ==
    [][ /\ Len(likes') > Len(likes) =>
              /\ VerifiedSubject(api'.authorization, clock) # Absent
              /\ likes'[Len(likes')].user_id = VerifiedSubject(api'.authorization, clock)
        /\ Len(followers') > Len(followers) =>
              /\ VerifiedSubject(api'.authorization, clock) # Absent
              /\ followers'[Len(followers')].user_id =
                    VerifiedSubject(api'.authorization, clock)
        /\ (last'.op = "protected" /\ last'.handlerRan) =>
              ToString(last'.subjectId) = VerifiedSubject(last'.header, last'.now) ]_vars

\* no two rows of an array carry the same id
UniqueIds(array) ==
    \A j, k \in 1 .. Len(array) : array[j].id = array[k].id => j = k

\* C22: in every state reachable by create and delete operations on likes
\* (and likewise on comments, followers and posts) no two records of the
\* collection have the same id, a new record's id being the collection
\* length plus one.
C22_IdsUnique ==
    /\ UniqueIds(likes)
    /\ UniqueIds(comments)
    /\ UniqueIds(followers)
    /\ UniqueIds(posts)

\* an id that some row of the array carries
Exists(array, id) == \E k \in 1 .. Len(array) : array[k].id = id

\* C23: after any sequence of create, update and delete requests every like
\* and every comment refers to a stored user and a stored post, and every
\* follower refers to two stored users.
C23_ReferencesExist ==
    /\ \A k \in 1 .. Len(likes) :
            Exists(mockUsers, likes[k].user_id) /\ Exists(posts, likes[k].post_id)
    /\ \A k \in 1 .. Len(comments) :
            Exists(mockUsers, comments[k].user_id) /\ Exists(posts, comments[k].post_id)
    /\ \A k \in 1 .. Len(followers) :
            /\ Exists(mockUsers, followers[k].user_id)
            /\ Exists(mockUsers, followers[k].followed_user_id)


\* the row a request for :id addresses: the first one that carries the id
Addressed(array, id, k) ==
    /\ k \in 1 .. Len(array)
    /\ array[k].id = id
    /\ \A j \in 1 .. k - 1 : array[j].id # id

\* the array after row k was replaced or removed, every other row in place
ReplacedAt(array, after, k) ==
    /\ Len(after) = Len(array)
    /\ \A j \in 1 .. Len(array) : j # k => after[j] = array[j]

RemovedAt(array, after, k) ==
    /\ Len(after) = Len(array) - 1
    /\ \A j \in 1 .. Len(after) : after[j] = IF j < k THEN array[j] ELSE array[j + 1]

\* an update or delete request on the array: refused with 401 and without
\* effect when the caller is not the owner of the addressed row, and any
\* effect it has is on a row the caller owns
OwnerOnly(array, after, ops) ==
    api'.op \in ops =>
        /\ \A k \in 1 .. Len(array) :
                Addressed(array, api'.id, k) /\ array[k].user_id # api'.xUserId
                    => api'.status = 401 /\ after = array
        /\ after # array =>
                \E k \in 1 .. Len(array) :
                    /\ array[k].user_id = api'.xUserId
                    /\ ReplacedAt(array, after, k) \/ RemovedAt(array, after, k)

\* C24: an update or delete of a like, comment, follower or post whose
\* X-User-Id differs from the user_id of the addressed record is answered 401
\* and leaves the collection as it was; a record is modified or removed only
\* by a request whose X-User-Id equals its user_id.
C24_OnlyOwnerChanges ==
    [][/\ OwnerOnly(likes, likes', {"updateLike", "deleteLike"})
       /\ OwnerOnly(comments, comments', {"updateComment", "deleteComment"})
       /\ OwnerOnly(followers, followers', {"updateFollower", "deleteFollower"})
       /\ OwnerOnly(posts, posts', {"updatePost", "deletePost"})]_vars

\* a like whose update was refused to a caller who is not its owner, and
\* which is stored as it was created
C24_Witness ==
    /\ api.op = "updateLike"
    /\ api.status = 401
    /\ api.xUserId # Absent
    /\ \E k \in 1 .. Len(likes) :
            /\ Addressed(likes, api.id, k)
            /\ likes[k].user_id # api.xUserId
            /\ likes[k].post_id = "1"

\* a create request on the array: 401 without X-User-Id, 404 when the header
\* names no user, nothing stored unless the answer is 201, and with 201 one
\* row appended that carries the caller as user_id and refers to a stored
\* target
CreateEffect(array, after, op, targets, field) ==
    api'.op = op =>
        /\ api'.status \in {201, 401, 404}
        /\ api'.status = 401 <=> api'.xUserId = Absent
        /\ api'.xUserId # Absent /\ ~Exists(mockUsers, api'.xUserId)
                => api'.status = 404
        /\ api'.status # 201 => after = array /\ ~api'.success
        /\ api'.status = 201 =>
                /\ Len(after) = Len(array) + 1
                /\ \A k \in 1 .. Len(array) : after[k] = array[k]
                /\ after[Len(after)].user_id = api'.xUserId
                /\ Exists(mockUsers, api'.xUserId)
                /\ Exists(targets, after[Len(after)][field])
                /\ api'.data.user_id = api'.xUserId

\* C25: a create request for a like, comment or follower that is rejected
\* (401 without X-User-Id, 404 when X-User-Id names no user or the target
\* post or followed user is missing) leaves the collection as it was; an
\* accepted one appends exactly one record whose user_id is the X-User-Id
\* and answers 201.
C25_CreateAppendsOneOrNothing ==
    [][/\ CreateEffect(likes, likes', "createLike", posts, "post_id")
       /\ CreateEffect(comments, comments', "createComment", posts, "post_id")
       /\ CreateEffect(followers, followers', "createFollower", mockUsers,
                       "followed_user_id")]_vars

\* a comment was refused for a post that does not exist while an earlier
\* comment of the same caller is stored
C25_Witness ==
    /\ api.op = "createComment"
    /\ api.status = 404
    /\ api.error = "Post not found"
    /\ Len(comments) = 1
    /\ comments[1].user_id = api.xUserId

\* an update request on the array: every row keeps its id and its user_id,
\* and no row but the addressed one differs afterwards
UpdateFrame(array, after, op) ==
    api'.op = op =>
        /\ Len(after) = Len(array)
        /\ \A k \in 1 .. Len(array) :
                /\ after[k].id = array[k].id
                /\ after[k].user_id = array[k].user_id
                /\ after[k] # array[k] => Addressed(array, api'.id, k)
        /\ api'.status = 200 =>
                /\ api'.data.id = api'.id
                /\ api'.data.user_id = api'.xUserId

\* C26: an update of a like, comment, follower or post never changes the id
\* or the user_id of the record, whatever the body contains (id and user_id
\* included), and changes no other record.
C26_UpdateKeepsIdAndOwner ==
    [][/\ UpdateFrame(likes, likes', "updateLike")
       /\ UpdateFrame(comments, comments', "updateComment")
       /\ UpdateFrame(followers, followers', "updateFollower")
       /\ UpdateFrame(posts, posts', "updatePost")]_vars

\* the second of two likes was updated with the body that carries id "9",
\* user_id "9" and post_id "9": only its post_id is the body's
C26_Witness ==
    /\ api.op = "updateLike"
    /\ api.status = 200
    /\ Len(likes) = 2
    /\ Addressed(likes, api.id, 2)
    /\ likes[2].post_id = "9"
    /\ likes[2].user_id = api.xUserId
    /\ likes[1].post_id = "1"

\* C27: after any sequence of createUser, updateUser and deleteUser no two
\* stored users have the same username.
C27_UsernamesUnique ==
    \A j, k \in 1 .. Len(mockUsers) :
        mockUsers[j].username = mockUsers[k].username => j = k

\* the number a query value asks for; 0 for a value that is absent, does not
\* start with a number, or is zero
AskedNumber(q) ==
    CASE q = <<"1">> -> 1
      [] q = <<"2">> -> 2
      [] q = <<"3">> -> 3
      [] q = <<"1", "0">> -> 10
      [] q = <<"2", "a">> -> 2
      [] q = <<"-", "1">> -> 0 - 1
      [] OTHER -> 0

AskedPage(query) ==
    IF AskedNumber(query.page) = 0 THEN 1 ELSE AskedNumber(query.page)

AskedLimit(query) ==
    IF AskedNumber(query.limit) = 0 THEN 10 ELSE AskedNumber(query.limit)

\* the answer to a list request on the array is the page that was asked for
PageAnswered(array, op) ==
    LET page == AskedPage(api.query)
        limit == AskedLimit(api.query)
        total == Len(array)
        first == (page - 1) * limit
        last_ == IF page * limit < total THEN page * limit ELSE total
    IN  api.op = op /\ page >= 1 /\ limit >= 1 =>
            /\ api.status = 200
            /\ api.page = page
            /\ Len(api.rows) = (IF last_ > first THEN last_ - first ELSE 0)
            /\ \A k \in 1 .. Len(api.rows) :
                    \A f \in DOMAIN array[first + k] :
                        api.rows[k][f] = array[first + k][f]
            /\ api.count = Len(api.rows)
            /\ api.total_pages * limit >= total
            /\ (api.total_pages - 1) * limit < total
            /\ api.pagination.next # <<>> <=> page * limit < total
            /\ api.pagination.prev # <<>> <=> page > 1

\* C28: for every collection and every page >= 1 and limit >= 1 a list
\* request returns exactly the records at positions (page-1)*limit up to
\* min(page*limit, total)-1 in stored order, count is the number of records
\* returned, total_pages is ceil(total/limit), pagination.next is present
\* exactly when page*limit < total and pagination.prev exactly when page > 1;
\* an absent, non-numeric or zero page counts as 1 and such a limit as 10.
C28_PageIsTheOneAsked ==
    /\ PageAnswered(likes, "getLikes")
    /\ PageAnswered(mockUsers, "getUsers")

\* C29: the answer of GET /protected/account/balance holds only accounts
\* whose userId is the sub of the verified token: a request authorized with
\* the token of one user returns no account and no balance of another user,
\* whichever accounts the other user has.
C29_OnlyOwnAccountsReturned ==
    (last.op = "protected" /\ last.resp.status = 200) =>
        LET sub == last.header.token.sub
            returned == last.resp.data.Account
        IN  /\ PassesVerification(last.header.token, last.now)
            /\ \A x \in returned :
                    \E a \in accounts :
                        a.id = x.id /\ a.balance = x.balance /\ a.userId = sub
            /\ \A a \in accounts :
                    a.userId # sub => \A x \in returned : x.id # a.id

\* a user was answered with an account of its own while another user has
\* an account too
C29_Witness ==
    /\ last.op = "protected"
    /\ last.resp.status = 200
    /\ last.resp.data.Account # {}
    /\ \E a \in accounts : a.userId # last.header.token.sub

\* C30: registration creates the user and its default account together:
\* after every step each stored User owns at least one Account; a
\* registration that succeeds adds one User and one Account of that user
\* with balance 0; one that fails (duplicate email or any other error) adds
\* neither a User nor an Account; and a registration that has not reached
\* the store yet has written nothing.
C30_UserAndAccountTogether ==
    [][/\ \A u \in users' : \E a \in accounts' : a.userId = u.id
       /\ \A c \in Callers :
            reg'[c] # reg[c] =>
                IF reg'[c].pc = "done" /\ reg'[c].resp = Created(reg'[c].email)
                THEN \E u \in users' \ users, a \in accounts' \ accounts :
                        /\ users' = users \cup {u}
                        /\ accounts' = accounts \cup {a}
                        /\ u.email = reg'[c].email
                        /\ a.userId = u.id
                        /\ a.balance = 0
                ELSE users' = users /\ accounts' = accounts]_vars

\* one registration succeeded and the other one failed on the same email:
\* one user, one account
C30_Witness ==
    /\ \E c \in Callers : reg[c].pc = "done" /\ reg[c].resp = Created(reg[c].email)
    /\ \E c \in Callers : reg[c].pc = "done" /\ reg[c].resp = ConflictError
    /\ Cardinality(users) = 1
    /\ Cardinality(accounts) = 1

=============================================================================
